---- MODULE Spec2Model ----
(***************************************************************************)
(* State-machine model of the OPC UA gateway:                              *)
(*   - OpcUaConnector (src/opcua_connector.py): session, subscription,     *)
(*     handle list, latest_values cache, value_callbacks fan-out,          *)
(*     certificate provisioning;                                           *)
(*   - SubHandler.datachange_notification, run on the client library's     *)
(*     delivery thread;                                                    *)
(*   - MqttPublisher (src/all_in_one_gateway.py): sink callback            *)
(*     update_value and the periodic publish loop thread.                  *)
(* The OPC UA client library, the MQTT client and the file system are the  *)
(* environment: each call into them may succeed or raise.                  *)
(***************************************************************************)
EXTENDS Integers, Sequences, FiniteSets, TLC

\* ------------------------------------------------------------------ bounds
MaxClients   == 2   \* Client objects constructed over a run
MaxSubs      == 2   \* subscriptions created over a run
MaxValue     == 2   \* values delivered by the server are 1..MaxValue
MaxCallbacks == 2   \* registrations in value_callbacks
MaxEvents    == 3   \* accepted values (notifications + initial reads) per run
MaxGen       == 2   \* key/certificate generations per run
MaxThreads   == 2   \* publish threads started per run

None == 0

\* ----------------------------------------------------------- configuration
\* nodes_to_monitor as parsed from the MONITORING section: ordered list of
\* {id, name, unit}; the unit is optional and defaults to "".
nodes_to_monitor ==
    << [id |-> "ns=2;s=A", name |-> "A", unit |-> "C"],
       [id |-> "ns=2;s=B", name |-> "B", unit |-> "%"],
       [id |-> "ns=2;s=C", name |-> "C", unit |-> ""] >>

NumNodes == Len(nodes_to_monitor)
Points   == 1..NumNodes
Names    == {nodes_to_monitor[i].name : i \in Points}

\* A node id the server may report that is not configured.
UnknownId == "ns=2;s=X"
NodeIds   == {nodes_to_monitor[i].id : i \in Points} \cup {UnknownId}

Values == 1..MaxValue

\* Sinks that collaborators register: the MQTT publisher's update_value, which
\* only records into its own map, and some other callback that may raise.
Sinks == {"mqtt", "other"}

\* Files written by generate_certificates, below <cwd>/certificates.
CertPath == "certificates/certificate.der"
KeyPath  == "certificates/private_key.pem"

\* datetime.isoformat(): the timestamp is stored as text, not as a datetime.
IsoFormat(t) == [iso |-> t]

VARIABLES
    \* OpcUaConnector
    client,           \* None or the id of the Client object held
    connected,        \* the connected flag
    subscription,     \* None or the id of the Subscription object held
    handles,          \* list of monitored-item handles (a handle names its point)
    latest_values,    \* cache: name -> [value, unit, timestamp]
    value_callbacks,  \* list of registered sinks
    \* the caller thread: inside subscribe_to_nodes or MqttPublisher.disconnect
    pc, subIdx, readVal,
    \* data source (client library + server)
    nClients,         \* Client objects constructed so far
    open,             \* Client objects whose session is open
    subs,             \* subscriptions created: [session, items, deleted]
    \* file system
    keyFile, certFile, nGen,
    \* wall clock: read by datetime.now(); time passes between accepted values
    clock,
    \* what the environment does in this run, see Profiles
    env,
    \* MqttPublisher
    mqtt_latest,      \* sink-local map, in insertion order: [keys, vals]
    mqtt_connected,   \* MqttPublisher.connected, set by on_connect/on_disconnect
    mqtt_loop,        \* the MQTT client's network loop is running
    keep_running,     \* the publish loop's running flag
    publish_thread,   \* None or the id of the Thread object held
    threads,          \* publish threads started: [pc, used, pos, cycle, err]
    \* history
    ret,              \* outcome of the last lifecycle call; for disconnect() also
                      \* what the engine held before it and the library calls made
    hist,             \* per point: the last accepted value and where it came from
    accepted,         \* number of accepted values so far
    regAt,            \* per registration: value of accepted when it was registered
    calls,            \* per registration: invocations so far
    lastFan,          \* the last fan-out: point, registrations invoked and raising,
                      \* the value passed and the cache's record for the point then
    subCall           \* the last subscribe_to_nodes call: points whose creation
                      \* failed, whose read failed, whose read was stored, the
                      \* clock when it started, and the clock at the read whose
                      \* value is not stored yet
VARIABLES
    dropped,          \* history: a notification for an unmatched id was dropped
    handler,          \* the notification handler between its store and its
                      \* fan-out, see "statement by statement"
    \* the programs built on the engine, see "the gateways"
    program,          \* which program runs, or "none"
    mainPc,           \* position of its startup routine
    failedAt,         \* the startup step that failed, or "none"
    events,           \* history: the shutdown steps completed, in order
    server,           \* UnityConnector.server: None or the running HTTP server
    sleepLeft,        \* per publish thread: ticks left of its time.sleep
    joinLeft,         \* ticks left of the join in MqttPublisher.disconnect
    loopReady,        \* the broker's event loop: handles ready to run
    loopBatch,        \* handles left to run in the current iteration
    loopStopping,     \* loop.stop() was called
    loopState,        \* "running", "stopped", or "none" without a broker
    broker            \* the embedded broker: "started", "closing", "stopped"

engineVars == <<client, connected, subscription, handles, latest_values,
                value_callbacks, pc, subIdx, readVal>>
sourceVars == <<nClients, open, subs>>
fileVars   == <<keyFile, certFile, nGen>>
mqttVars   == <<mqtt_connected, mqtt_loop, keep_running, publish_thread, threads>>
histVars   == <<ret, hist, accepted, regAt, calls, lastFan, subCall>>
\* The variables the calls of the engine and of the sink do not write: the
\* notification handler's unmatched branch writes the first, its statements
\* taken one by one the second, the programs built on the engine the others.
frameVars  == <<dropped, handler, program, mainPc, failedAt, events, server, sleepLeft,
                joinLeft,
                loopReady, loopBatch, loopStopping, loopState, broker>>
vars == <<engineVars, sourceVars, fileVars, clock, env, mqtt_latest, mqttVars, histVars,
          frameVars>>

\* ------------------------------------------------------------------ helpers
Range(s) == {s[i] : i \in 1..Len(s)}

Count(seq, x) == Cardinality({k \in 1..Len(seq) : seq[k] = x})

EmptyMap == [n \in {} |-> 0]

\* An assignment that replaces the whole dict by the one entry.
Put_Replace(map, k, v) == [x \in {k} |-> v]

\* map[k] = v on a dict.
Put(map, k, v) == [x \in (DOMAIN map) \cup {k} |-> IF x = k THEN v ELSE map[x]]

NoRet == [op |-> "none", ok |-> TRUE, raised |-> FALSE, paths |-> <<>>, existed |-> FALSE,
          before |-> <<>>, trace |-> <<>>]
Ret(op, ok) == [NoRet EXCEPT !.op = op, !.ok = ok]
\* What a reader of the cache finds for a name that is no key of it.
NoRecord == [value |-> None, unit |-> "", timestamp |-> [iso |-> None]]
NoFan  == [point |-> 0, invoked |-> <<>>, raises |-> {}, escaped |-> FALSE, regs |-> 0,
           value |-> None, seen |-> NoRecord]
NoCall == [createFailed |-> {}, readFailed |-> {}, seeded |-> {}, start |-> 0,
           readAt |-> 0]
NewThread == [pc |-> "check", used |-> 0, pos |-> 0, cycle |-> "none", err |-> 0]

\* ------------------------------------------------- SubHandler: node lookup
\* next((n for n in nodes_to_monitor if n["id"] == node_id), None):
\* the first configured entry whose id equals the reported id, else None.
RECURSIVE FindFrom(_, _)
FindFrom(node_id, i) ==
    IF i > NumNodes THEN None
    ELSE IF nodes_to_monitor[i].id = node_id THEN i
    ELSE FindFrom(node_id, i + 1)

\* A lookup that falls back to the first configured entry.
FindNodeInfo_Default(node_id) ==
    IF FindFrom(node_id, 1) = None THEN 1 ELSE FindFrom(node_id, 1)

FindNodeInfo(node_id) == FindFrom(node_id, 1)

\* A handler that keeps the timestamp of the first record of a point.
NotificationRecord_Stale(i, val, now) ==
    [value |-> val, unit |-> nodes_to_monitor[i].unit, timestamp |-> IsoFormat(0)]

\* The record the notification handler stores: the delivered value, the
\* configured unit, and the time of receipt as ISO text.
NotificationRecord(i, val, now) ==
    [value |-> val, unit |-> nodes_to_monitor[i].unit, timestamp |-> IsoFormat(now)]

\* An initial record that leaves the configured unit out.
InitialRecord_NoUnit(i, value, now) ==
    [value |-> value, unit |-> "", timestamp |-> IsoFormat(now)]

\* The record subscribe_to_nodes stores after a successful initial read.
InitialRecord(i, value, now) ==
    [value |-> value, unit |-> nodes_to_monitor[i].unit, timestamp |-> IsoFormat(now)]

\* ------------------------------------------------------ _notify_callbacks
\* A loop without the try/except: the first raising callback ends it.
RECURSIVE NotifyFrom_Abort(_, _, _)
NotifyFrom_Abort(cbs, raises, i) ==
    IF i > Len(cbs) THEN [invoked |-> <<>>, escaped |-> FALSE]
    ELSE IF i \in raises THEN [invoked |-> <<i>>, escaped |-> TRUE]
    ELSE LET rest == NotifyFrom_Abort(cbs, raises, i + 1)
         IN  [invoked |-> <<i>> \o rest.invoked, escaped |-> rest.escaped]

\* for callback in value_callbacks: try: callback(...) except Exception: log.
\* raises is the set of registrations whose callback raises on this call.
\* Result: the registrations invoked, in order, and whether an exception
\* left the loop.
RECURSIVE NotifyFrom(_, _, _)
NotifyFrom(cbs, raises, i) ==
    IF i > Len(cbs) THEN [invoked |-> <<>>, escaped |-> FALSE]
    ELSE LET rest == NotifyFrom(cbs, raises, i + 1)
         IN  \* callback i runs; if it raises, the except clause logs
             [invoked |-> <<i>> \o rest.invoked, escaped |-> rest.escaped]

\* A fan-out that calls each distinct sink once, however often registered.
NotifyCallbacks_Dedup(cbs, raises) ==
    [invoked |-> SelectSeq([k \in 1..Len(cbs) |-> k],
                           LAMBDA k : \A j \in 1..(k - 1) : cbs[j] # cbs[k]),
     escaped |-> FALSE]

NotifyCallbacks(cbs, raises) == NotifyFrom(cbs, raises, 1)

\* MqttPublisher.update_value: record into the sink's own map; a new name is
\* appended to the key order, an existing name keeps its position.
UpdateValue(m, name, value, unit, timestamp) ==
    [keys |-> IF name \in Range(m.keys) THEN m.keys ELSE Append(m.keys, name),
     vals |-> Put(m.vals, name,
                  [value |-> value, unit |-> unit, timestamp |-> IsoFormat(timestamp)])]

\* Effect of one fan-out on the MQTT sink's map: every invocation of a
\* registration of update_value that returns normally records the value.
SinkEffect(m, cbs, fan, raises, name, value, unit, timestamp) ==
    IF \E k \in 1..Len(fan.invoked) :
           cbs[fan.invoked[k]] = "mqtt" /\ fan.invoked[k] \notin raises
    THEN UpdateValue(m, name, value, unit, timestamp)
    ELSE m

\* ------------------------------------------------- generate_certificates
GenOutcomes == {"ok", "key_raise", "cert_raise"}

\* A provisioning without the existence check: a new key pair on every call.
GenerateCertificates_Always(fs, o) ==
    [key |-> fs.gen + 1, cert |-> fs.gen + 1, gen |-> fs.gen + 1, raised |-> FALSE,
     paths |-> <<CertPath, KeyPath>>]

\* A provisioning that logs its error and returns the paths all the same.
GenerateCertificates_Swallow(fs, o) ==
    LET g == fs.gen + 1
        done == [key |-> fs.key, cert |-> fs.cert, gen |-> fs.gen, raised |-> FALSE,
                 paths |-> <<CertPath, KeyPath>>]
    IN  IF fs.cert # None /\ fs.key # None THEN done
        ELSE IF o = "key_raise" THEN done
        ELSE IF o = "cert_raise" THEN [done EXCEPT !.key = g, !.gen = g]
        ELSE [done EXCEPT !.key = g, !.cert = g, !.gen = g]

\* fs = [key, cert, gen]: contents of the two files (None = absent) and the
\* number of key pairs generated so far.  Every generation yields fresh
\* content (random key, random serial number).  The key file is written
\* before the certificate is built and written.
\*   key_raise:  key generation or the key file's open raises, nothing written
\*   cert_raise: the key file is written, then signing or the certificate
\*               file's open raises
GenerateCertificates(fs, o) ==
    IF fs.cert # None /\ fs.key # None
    THEN [key |-> fs.key, cert |-> fs.cert, gen |-> fs.gen, raised |-> FALSE,
          paths |-> <<CertPath, KeyPath>>]
    ELSE LET g == fs.gen + 1 IN
         CASE o = "key_raise" ->
                [key |-> fs.key, cert |-> fs.cert, gen |-> fs.gen, raised |-> TRUE, paths |-> <<>>]
           [] o = "cert_raise" ->
                [key |-> g, cert |-> fs.cert, gen |-> g, raised |-> TRUE, paths |-> <<>>]
           [] OTHER ->
                [key |-> g, cert |-> g, gen |-> g, raised |-> FALSE,
                 paths |-> <<CertPath, KeyPath>>]

\* ------------------------------------------------------------- disconnect
\* Outcomes of the library calls made by disconnect():
\*   unsub: position in handles of the unsubscribe that raises (0: none does)
\*   del:   subscription.delete() raises
\*   close: client.disconnect() returns, or raises with the session closed
\*          anyway, or raises with the session left open
DiscOutcomes == [unsub : 0..NumNodes, del : BOOLEAN,
                 close : {"ok", "raise_closed", "raise_open"}]

DiscOk == [unsub |-> 0, del |-> FALSE, close |-> "ok"]

\* The outcomes possible in engine state e: an unsubscribe can only raise
\* for a handle of the list, delete() is only reached when none raised,
\* client.disconnect() is only called on a client, and a subscription that
\* the server has dropped rejects the first call made on it.
Effective(e, f) ==
    /\ f.unsub <= (IF e.subscription = None THEN 0 ELSE Len(e.handles))
    /\ f.del => (e.subscription # None /\ f.unsub = 0)
    /\ f.close # "ok" => e.client # None
    /\ (e.subscription # None /\ e.subs[e.subscription].deleted) =>
           IF e.handles = <<>> THEN f.del ELSE f.unsub = 1

\* e = [client, connected, subscription, handles, open, subs]
\* The first half of disconnect(): if self.subscription: try ... except: log.
TeardownSubscription(e, f) ==
    IF e.subscription = None THEN e
    ELSE IF f.unsub \in 1..Len(e.handles)
    THEN \* an unsubscribe raises: the except clause logs; neither the handle
         \* list nor the subscription reference is reset
         [e EXCEPT !.subs[e.subscription].items =
                       @ \ {e.handles[k] : k \in 1..(f.unsub - 1)}]
    ELSE IF f.del
    THEN \* delete() raises after the handle list was emptied
         [e EXCEPT !.subs[e.subscription].items = @ \ Range(e.handles),
                   !.handles = <<>>]
    ELSE [e EXCEPT !.subs[e.subscription].items = {},
                   !.subs[e.subscription].deleted = TRUE,
                   !.handles = <<>>,
                   !.subscription = None]

\* Closing a session ends every subscription created on it.
CloseSession(sb, c) ==
    [s \in 1..Len(sb) |->
        IF sb[s].session = c THEN [sb[s] EXCEPT !.items = {}, !.deleted = TRUE]
        ELSE sb[s]]

\* The second half of disconnect(): if self.client: try client.disconnect()
\* except: log; finally: client = None, connected = False.
TeardownClient(e, f) ==
    IF e.client = None THEN e
    ELSE IF f.close = "raise_open"
    THEN [e EXCEPT !.client = None, !.connected = FALSE]
    ELSE [e EXCEPT !.open = @ \ {e.client},
                   !.subs = CloseSession(@, e.client),
                   !.client = None,
                   !.connected = FALSE]

Disconnect(e, f) == TeardownClient(TeardownSubscription(e, f), f)

\* The library calls disconnect() makes, in order: subscription.unsubscribe
\* per handle up to the one that raises, subscription.delete() when the for
\* loop finished, client.disconnect() when a client is held.
DisconnectTrace(e, f) ==
    (IF e.subscription = None THEN <<>>
     ELSE IF f.unsub \in 1..Len(e.handles)
     THEN [k \in 1..f.unsub |-> "unsubscribe"]
     ELSE [k \in 1..Len(e.handles) |-> "unsubscribe"] \o <<"delete">>)
    \o (IF e.client = None THEN <<>> ELSE <<"close">>)

\* A connect() whose except clause only logs.
ConnectCleanup_LogOnly(e, f) == e

\* The except clause of connect(): log, then self.disconnect().
ConnectCleanup(e, f) == Disconnect(e, f)

Engine == [client |-> client, connected |-> connected, subscription |-> subscription,
           handles |-> handles, open |-> open, subs |-> subs]

SetEngine(e) ==
    /\ client' = e.client /\ connected' = e.connected
    /\ subscription' = e.subscription /\ handles' = e.handles
    /\ open' = e.open /\ subs' = e.subs

\* A subscription delivers notifications while it is not deleted and its
\* session is open.
Live(s) == ~subs[s].deleted /\ subs[s].session \in open

\* ------------------------------------------------- environment profiles
\* env is the set of things that vary in a run; everything else succeeds:
\*   "files":     the file system calls of generate_certificates may raise
\*   "connect":   set_security_string and client.connect may raise
\*   "subscribe": create_subscription and subscribe_data_change may raise
\*   "teardown":  unsubscribe, delete and client.disconnect may raise
\*   "data":      the server reports varying values, sinks are registered
\*                and their callbacks may raise
\* Initial reads (get_value) may raise in every run.  In the "ids" runs the
\* server also reports ids that are not configured.
\* The other specifications fix env: "publish" (serializing or publishing an
\* entry may raise), "gateway" and "steps" (one sink is registered).
Profiles == { {"files"}, {"connect", "teardown"}, {"subscribe"}, {"data"}, {"ids"} }

ConnectOutcomes == {"ok", "security_raise", "connect_raise"}

GenChoices     == IF "files" \in env THEN GenOutcomes ELSE {"ok"}
ConnectChoices == IF "connect" \in env THEN ConnectOutcomes ELSE {"ok"}
DiscChoices(e) == IF "teardown" \in env
                  THEN {f \in DiscOutcomes : Effective(e, f)} ELSE {DiscOk}
ValueChoices   == IF "data" \in env \/ "steps" \in env THEN Values ELSE {1}
CallbackLimit  == IF "data" \in env THEN MaxCallbacks
                  ELSE IF "ids" \in env \/ "gateway" \in env \/ "steps" \in env
                  THEN MaxCallbacks - 1
                  ELSE 0
ClientLimit    == IF "connect" \in env THEN MaxClients ELSE 1
SubLimit       == IF "subscribe" \in env THEN MaxSubs ELSE 1
SubFaults      == "subscribe" \in env

InitState ==
    /\ client = None /\ connected = FALSE /\ subscription = None
    /\ handles = <<>> /\ latest_values = EmptyMap /\ value_callbacks = <<>>
    /\ pc = "idle" /\ subIdx = 0 /\ readVal = 0
    /\ nClients = 0 /\ open = {} /\ subs = <<>>
    /\ keyFile = None /\ certFile = None /\ nGen = 0
    /\ clock = 0
    /\ mqtt_latest = [keys |-> <<>>, vals |-> EmptyMap]
    /\ mqtt_connected = FALSE /\ mqtt_loop = FALSE /\ keep_running = TRUE
    /\ publish_thread = None /\ threads = <<>>
    /\ ret = NoRet
    /\ hist = [i \in Points |-> [kind |-> "none", value |-> 0, ts |-> 0, id |-> ""]]
    /\ accepted = 0 /\ regAt = <<>> /\ calls = <<>>
    /\ lastFan = NoFan /\ subCall = NoCall
    /\ dropped = FALSE /\ handler = [pc |-> "idle", point |-> 0, val |-> 0]

\* No program of "the gateways" runs: the calls are made in any order.
NoProgram ==
    /\ program = "none" /\ mainPc = "none" /\ failedAt = "none" /\ events = <<>>
    /\ server = None /\ sleepLeft = <<>> /\ joinLeft = 0
    /\ loopReady = <<>> /\ loopBatch = 0 /\ loopStopping = FALSE
    /\ loopState = "none" /\ broker = "none"

Init == InitState /\ NoProgram /\ env \in Profiles

\* --------------------------------------------------------------- fan-out
\* The state change of one call of _notify_callbacks(name, value, unit) for
\* point i: raises are the registrations that raise, now is its datetime.now()
\* (no accepted value falls between the caller's clock reading and this one,
\* so both read the same clock value); seen is the record the cache holds
\* for the point when the call is made.
Fanout(i, value, raises, now, seen) ==
    LET fan == NotifyCallbacks(value_callbacks, raises) IN
    /\ mqtt_latest' = SinkEffect(mqtt_latest, value_callbacks, fan, raises,
                                 nodes_to_monitor[i].name, value,
                                 nodes_to_monitor[i].unit, now)
    /\ calls' = [k \in 1..Len(calls) |-> calls[k] + Count(fan.invoked, k)]
    /\ lastFan' = [point |-> i, invoked |-> fan.invoked, raises |-> raises,
                   escaped |-> fan.escaped, regs |-> Len(value_callbacks),
                   value |-> value, seen |-> seen]
    /\ accepted' = accepted + 1

\* Registrations whose callback may raise: update_value does not.
MayRaise == {i \in 1..Len(value_callbacks) : value_callbacks[i] # "mqtt"}

\* ------------------------------------------------------ add_value_callback
AddValueCallback ==
    /\ pc = "idle"
    /\ Len(value_callbacks) < CallbackLimit
    /\ \E s \in Sinks :
         /\ value_callbacks' = Append(value_callbacks, s)
         /\ regAt' = Append(regAt, accepted)
         /\ calls' = Append(calls, 0)
    /\ UNCHANGED <<client, connected, subscription, handles, latest_values,
                   pc, subIdx, readVal, sourceVars, fileVars, clock, env,
                   mqtt_latest, mqttVars, ret, hist, accepted, lastFan, subCall>>

\* ------------------------------------------------- generate_certificates()
GenerateCertificatesCall ==
    /\ pc = "idle"
    /\ (keyFile = None \/ certFile = None) => nGen < MaxGen
    /\ \E o \in GenChoices :
         LET g == GenerateCertificates([key |-> keyFile, cert |-> certFile, gen |-> nGen], o)
         IN  /\ keyFile' = g.key /\ certFile' = g.cert /\ nGen' = g.gen
             /\ ret' = [NoRet EXCEPT !.op = "generate_certificates",
                                     !.ok = ~g.raised, !.raised = g.raised,
                                     !.paths = g.paths,
                                     !.existed = (keyFile # None /\ certFile # None)]
    /\ UNCHANGED <<engineVars, sourceVars, clock, env, mqtt_latest, mqttVars,
                   hist, accepted, regAt, calls, lastFan, subCall>>

\* ---------------------------------------------------------------- connect()
Connect ==
    /\ pc = "idle"
    /\ nClients < ClientLimit
    /\ (keyFile = None \/ certFile = None) => nGen < MaxGen
    /\ \E go \in GenChoices :
         LET g  == GenerateCertificates([key |-> keyFile, cert |-> certFile, gen |-> nGen], go)
             c  == nClients + 1
             e1 == [Engine EXCEPT !.client = c]      \* self.client = Client(url)
         IN  /\ keyFile' = g.key /\ certFile' = g.cert /\ nGen' = g.gen
             /\ \/ /\ g.raised                     \* generate_certificates raises
                   /\ \E f \in DiscChoices(Engine) : SetEngine(ConnectCleanup(Engine, f))
                   /\ nClients' = nClients
                   /\ ret' = Ret("connect", FALSE)
                \/ /\ ~g.raised                    \* the security setup or connect raises
                   /\ ConnectChoices # {"ok"}
                   /\ \E f \in DiscChoices(e1) : SetEngine(ConnectCleanup(e1, f))
                   /\ nClients' = c
                   /\ ret' = Ret("connect", FALSE)
                \/ /\ ~g.raised
                   /\ SetEngine([e1 EXCEPT !.open = @ \cup {c}, !.connected = TRUE])
                   /\ nClients' = c
                   /\ ret' = Ret("connect", TRUE)
    /\ UNCHANGED <<latest_values, value_callbacks, pc, subIdx, readVal, clock, env,
                   mqtt_latest, mqttVars, hist, accepted, regAt, calls, lastFan,
                   subCall>>

\* ------------------------------------------------------------- disconnect()
DisconnectCall ==
    /\ pc = "idle"
    /\ \E f \in DiscChoices(Engine) :
         /\ SetEngine(Disconnect(Engine, f))
         /\ ret' = [Ret("disconnect", TRUE) EXCEPT
                       !.before = <<Len(handles), subscription # None, client # None>>,
                       !.trace = DisconnectTrace(Engine, f)]
    /\ UNCHANGED <<latest_values, value_callbacks, pc, subIdx, readVal, nClients,
                   fileVars, clock, env, mqtt_latest, mqttVars, hist, accepted,
                   regAt, calls, lastFan, subCall>>

\* ------------------------------------------------------ subscribe_to_nodes()
\* An entry check that lets every call through.
CanSubscribe_Always(e) == TRUE

\* The entry check: if not self.connected or not self.client: return False.
CanSubscribe(e) == e.connected /\ e.client # None

\* Entry: the connected check, create_subscription, self.handles = [].
SubscribeStart ==
    /\ pc = "idle"
    /\ \/ /\ ~CanSubscribe(Engine)
          /\ ret' = Ret("subscribe", FALSE)
          /\ UNCHANGED <<subscription, handles, pc, subIdx, subs>>
       \/ /\ CanSubscribe(Engine)
          /\ SubFaults
          /\ ret' = Ret("subscribe", FALSE)        \* create_subscription raises
          /\ UNCHANGED <<subscription, handles, pc, subIdx, subs>>
       \/ /\ CanSubscribe(Engine)
          /\ Len(subs) < SubLimit
          /\ subs' = Append(subs, [session |-> client, items |-> {}, deleted |-> FALSE])
          /\ subscription' = Len(subs) + 1
          /\ handles' = <<>>
          /\ pc' = "sub_item" /\ subIdx' = 1
          /\ ret' = Ret("subscribing", TRUE)
    /\ subCall' = [NoCall EXCEPT !.start = clock]
    /\ UNCHANGED <<client, connected, latest_values, value_callbacks, readVal,
                   nClients, open, fileVars, clock, env, mqtt_latest, mqttVars, hist,
                   accepted, regAt, calls, lastFan>>

\* A loop that gives up at the first point whose creation fails.
NextAfterFailure_Abort(idx) == NumNodes + 1

\* The loop index after the except clause of a failed monitored-item
\* creation: the error is logged and the for loop goes on with the next point.
NextAfterFailure(idx) == idx + 1

\* One loop iteration up to the initial read: get_node, subscribe_data_change,
\* handles.append, node.get_value().
SubscribeItem ==
    /\ pc = "sub_item" /\ subIdx <= NumNodes
    /\ \/ \* monitored-item creation raises: logged, next point
          /\ SubFaults
          /\ subCall' = [subCall EXCEPT !.createFailed = @ \cup {subIdx}]
          /\ subIdx' = NextAfterFailure(subIdx)
          /\ UNCHANGED <<handles, subs, pc, readVal>>
       \/ \* created, the initial read raises: logged, next point
          /\ handles' = Append(handles, subIdx)
          /\ subs' = [subs EXCEPT ![subscription].items = @ \cup {subIdx}]
          /\ subCall' = [subCall EXCEPT !.readFailed = @ \cup {subIdx}]
          /\ subIdx' = subIdx + 1
          /\ UNCHANGED <<pc, readVal>>
       \/ \* created and read
          /\ accepted < MaxEvents
          /\ handles' = Append(handles, subIdx)
          /\ subs' = [subs EXCEPT ![subscription].items = @ \cup {subIdx}]
          /\ \E v \in ValueChoices : readVal' = v
          /\ subCall' = [subCall EXCEPT !.readAt = clock]
          /\ pc' = "sub_store"
          /\ UNCHANGED subIdx
    /\ UNCHANGED <<client, connected, subscription, latest_values, value_callbacks,
                   nClients, open, fileVars, clock, env, mqtt_latest, mqttVars, ret,
                   hist, accepted, regAt, calls, lastFan>>

\* The rest of the iteration: store the value read, notify the callbacks.
SubscribeStore ==
    /\ pc = "sub_store"
    /\ \E raises \in SUBSET MayRaise :
         /\ latest_values' = Put(latest_values, nodes_to_monitor[subIdx].name,
                                 InitialRecord(subIdx, readVal, clock))
         /\ hist' = [hist EXCEPT ![subIdx] = [kind |-> "read", value |-> readVal, ts |-> clock,
                                            id |-> nodes_to_monitor[subIdx].id]]
         /\ Fanout(subIdx, readVal, raises, clock, InitialRecord(subIdx, readVal, clock))
    /\ clock' = clock + 1
    /\ subCall' = [subCall EXCEPT !.seeded = @ \cup {subIdx}, !.readAt = 0]
    /\ pc' = "sub_item" /\ subIdx' = subIdx + 1 /\ readVal' = 0
    /\ UNCHANGED <<client, connected, subscription, handles, value_callbacks,
                   sourceVars, fileVars, env, mqttVars, ret, regAt>>

SubscribeReturn ==
    /\ pc = "sub_item" /\ subIdx > NumNodes
    /\ pc' = "idle" /\ subIdx' = 0
    /\ ret' = Ret("subscribe", TRUE)
    /\ UNCHANGED <<client, connected, subscription, handles, latest_values,
                   value_callbacks, readVal, sourceVars, fileVars, clock, env,
                   mqtt_latest, mqttVars, hist, accepted, regAt, calls, lastFan,
                   subCall>>

\* ------------------------------------ SubHandler.datachange_notification
\* Delivered by the client library for an item of a live subscription, or
\* for an id that is not configured.
Deliverable(node_id) ==
    \E s \in 1..Len(subs) :
        /\ Live(s)
        /\ \/ node_id = UnknownId /\ "ids" \in env
           \/ \E h \in subs[s].items : nodes_to_monitor[h].id = node_id

\* A value read by subscribe_to_nodes and not yet stored counts towards MaxEvents.
Reserved == IF pc = "sub_store" THEN 1 ELSE 0

Notification ==
    \E node_id \in NodeIds, val \in ValueChoices, raises \in SUBSET MayRaise :
        LET i == FindNodeInfo(node_id) IN
        /\ Deliverable(node_id)
        /\ i # None
        /\ accepted + Reserved < MaxEvents
        /\ latest_values' = Put(latest_values, nodes_to_monitor[i].name,
                                NotificationRecord(i, val, clock))
        /\ hist' = [hist EXCEPT ![i] = [kind |-> "notif", value |-> val, ts |-> clock,
                                       id |-> node_id]]
        /\ Fanout(i, val, raises, clock, NotificationRecord(i, val, clock))
        /\ clock' = clock + 1
        /\ UNCHANGED <<client, connected, subscription, handles, value_callbacks,
                       pc, subIdx, readVal, sourceVars, fileVars, env, mqttVars,
                       ret, regAt, subCall>>

NotificationUnknown ==
    /\ Deliverable(UnknownId)
    /\ FindNodeInfo(UnknownId) = None
    /\ dropped' = TRUE
    /\ UNCHANGED <<engineVars, sourceVars, fileVars, clock, env, mqtt_latest, mqttVars,
                   histVars, handler, program, mainPc, failedAt, events, server, sleepLeft,
                   joinLeft, loopReady, loopBatch, loopStopping, loopState, broker>>

Next ==
    \/ AddValueCallback /\ UNCHANGED frameVars
    \/ GenerateCertificatesCall /\ UNCHANGED frameVars
    \/ Connect /\ UNCHANGED frameVars
    \/ DisconnectCall /\ UNCHANGED frameVars
    \/ SubscribeStart /\ UNCHANGED frameVars
    \/ SubscribeItem /\ UNCHANGED frameVars
    \/ SubscribeStore /\ UNCHANGED frameVars
    \/ SubscribeReturn /\ UNCHANGED frameVars
    \/ Notification /\ UNCHANGED frameVars
    \/ NotificationUnknown

Spec == Init /\ [][Next]_vars

\* ============================================================ MqttPublisher
\* The sink on its own: its lifecycle calls on the main thread, the MQTT
\* client's callbacks on the network thread, update_value on the notification
\* context, and the publish threads.
engineAll == <<engineVars, sourceVars, fileVars, clock, env, hist, accepted,
               regAt, calls, lastFan, subCall>>

\* MqttPublisher.connect()
MqttConnect ==
    /\ pc = "idle"
    /\ \/ \* client.connect raises: logged, return False
          /\ ret' = Ret("mqtt_connect", FALSE)
          /\ UNCHANGED <<mqtt_loop, keep_running, publish_thread, threads>>
       \/ /\ Len(threads) < MaxThreads
          /\ mqtt_loop' = TRUE
          /\ keep_running' = TRUE
          /\ threads' = Append(threads, NewThread)
          /\ publish_thread' = Len(threads) + 1
          /\ ret' = Ret("mqtt_connect", TRUE)
    /\ UNCHANGED <<engineAll, mqtt_latest, mqtt_connected>>

\* MqttPublisher.disconnect(), up to the join: clear the flag, then wait at
\* most one second for the thread held in publish_thread.
MqttDisconnectBegin ==
    /\ pc = "idle"
    /\ keep_running' = FALSE
    /\ pc' = "mqtt_join"
    /\ UNCHANGED <<client, connected, subscription, handles, latest_values,
                   value_callbacks, subIdx, readVal, sourceVars, fileVars, clock,
                   env, hist, accepted, regAt, calls, lastFan, subCall, ret,
                   mqtt_latest, mqtt_connected, mqtt_loop, publish_thread, threads>>

\* The join returns (thread not alive, thread exited, or timeout), then
\* loop_stop() and client.disconnect(); finally connected = False.
MqttDisconnectEnd ==
    /\ pc = "mqtt_join"
    /\ pc' = "idle"
    /\ mqtt_loop' = FALSE
    /\ mqtt_connected' = FALSE
    /\ ret' = Ret("mqtt_disconnect", TRUE)
    /\ UNCHANGED <<client, connected, subscription, handles, latest_values,
                   value_callbacks, subIdx, readVal, sourceVars, fileVars, clock,
                   env, hist, accepted, regAt, calls, lastFan, subCall,
                   mqtt_latest, keep_running, publish_thread, threads>>

\* on_connect(rc) and on_disconnect, called from the network loop.
OnConnect ==
    /\ mqtt_loop
    /\ \E rc \in {0, 1} : mqtt_connected' = (rc = 0)
    /\ UNCHANGED <<engineAll, ret, mqtt_latest, mqtt_loop, keep_running,
                   publish_thread, threads>>

OnDisconnect ==
    /\ mqtt_loop
    /\ mqtt_connected' = FALSE
    /\ UNCHANGED <<engineAll, ret, mqtt_latest, mqtt_loop, keep_running,
                   publish_thread, threads>>

\* update_value called as a sink on the notification context.
UpdateValueCall ==
    /\ \E i \in Points, v \in ValueChoices :
         mqtt_latest' = UpdateValue(mqtt_latest, nodes_to_monitor[i].name, v,
                                    nodes_to_monitor[i].unit, clock)
    /\ UNCHANGED <<engineAll, ret, mqttVars>>

\* A loop whose while test does not read the flag (while True).
LoopCheck_Forever(t) ==
    /\ threads[t].pc = "check"
    /\ threads' = [threads EXCEPT ![t] =
          IF ~mqtt_connected THEN [@ EXCEPT !.pc = "sleep", !.cycle = "skipped"]
          ELSE [@ EXCEPT !.pc = "iter", !.used = Len(mqtt_latest.keys), !.pos = 1,
                         !.cycle = "running"]]
    /\ UNCHANGED <<engineAll, ret, mqtt_latest, mqtt_connected, mqtt_loop,
                   keep_running, publish_thread>>

\* _publish_loop: the while test, the connected test and, when connected,
\* the start of _publish_values: the iterator over latest_values.items()
\* remembers the size of the dict.
LoopCheck(t) ==
    /\ threads[t].pc = "check"
    /\ threads' = [threads EXCEPT ![t] =
          IF ~keep_running THEN [@ EXCEPT !.pc = "exited"]
          ELSE IF ~mqtt_connected THEN [@ EXCEPT !.pc = "sleep", !.cycle = "skipped"]
          ELSE [@ EXCEPT !.pc = "iter", !.used = Len(mqtt_latest.keys), !.pos = 1,
                         !.cycle = "running"]]
    /\ UNCHANGED <<engineAll, ret, mqtt_latest, mqtt_connected, mqtt_loop,
                   keep_running, publish_thread>>

\* Serializing or publishing an entry may raise in the "publish" runs.
PublishChoices == IF "publish" \in env THEN BOOLEAN ELSE {TRUE}

\* A loop body without its try: the error leaves _publish_values and is
\* caught by _publish_loop, which ends the cycle.
AfterEntry_Abort(th, ok) ==
    IF ok THEN [th EXCEPT !.pos = @ + 1]
    ELSE [th EXCEPT !.pc = "sleep", !.cycle = "aborted", !.err = @ + 1]

\* The thread after the loop body for the entry at pos: the body's except
\* clause logs the error and the for loop takes the next entry.
AfterEntry(th, ok) == [th EXCEPT !.pos = @ + 1, !.err = IF ok THEN @ ELSE @ + 1]

\* One step of the for loop of _publish_values.  The dict iterator first
\* compares the dict's size with the size it remembered and raises
\* RuntimeError when they differ; the error leaves _publish_values and is
\* caught by _publish_loop.  Otherwise the next entry is serialized and
\* published; an error there is caught inside the loop body.
\* ok says whether json.dumps and client.publish went through for the entry
\* at pos; err counts the entries of the cycle for which they did not.
PublishNext(t) ==
    /\ threads[t].pc = "iter"
    /\ \E ok \in PublishChoices :
         threads' = [threads EXCEPT ![t] =
             IF Len(mqtt_latest.keys) # @.used
             THEN [@ EXCEPT !.pc = "sleep", !.cycle = "aborted"]
             ELSE IF @.pos > @.used
             THEN [@ EXCEPT !.pc = "sleep", !.cycle = "complete"]
             ELSE AfterEntry(@, ok)]
    /\ UNCHANGED <<engineAll, ret, mqtt_latest, mqtt_connected, mqtt_loop,
                   keep_running, publish_thread>>

\* The entries a thread has serialized and published in its current cycle:
\* a dict keeps insertion order and the sink never deletes a key.
Attempted(t) == {mqtt_latest.keys[k] : k \in 1..(threads[t].pos - 1)}

\* time.sleep(publish_interval) returns.
Sleep(t) ==
    /\ threads[t].pc = "sleep"
    /\ threads' = [threads EXCEPT ![t] = NewThread]
    /\ UNCHANGED <<engineAll, ret, mqtt_latest, mqtt_connected, mqtt_loop,
                   keep_running, publish_thread>>

NextMqtt ==
    \/ MqttConnect /\ UNCHANGED frameVars
    \/ MqttDisconnectBegin /\ UNCHANGED frameVars
    \/ MqttDisconnectEnd /\ UNCHANGED frameVars
    \/ OnConnect /\ UNCHANGED frameVars
    \/ OnDisconnect /\ UNCHANGED frameVars
    \/ UpdateValueCall /\ UNCHANGED frameVars
    \/ \E t \in 1..Len(threads) : LoopCheck(t) /\ UNCHANGED frameVars
    \/ \E t \in 1..Len(threads) : PublishNext(t) /\ UNCHANGED frameVars
    \/ \E t \in 1..Len(threads) : Sleep(t) /\ UNCHANGED frameVars

InitMqtt == InitState /\ NoProgram /\ env = {"publish"}

SpecMqtt == InitMqtt /\ [][NextMqtt]_vars

\* A step of publish thread t.  Every publish thread is a started daemon
\* thread: the interpreter keeps scheduling it, client.publish only queues
\* the message and time.sleep(publish_interval) returns.
ThreadStep(t) ==
    /\ t \in 1..Len(threads)
    /\ LoopCheck(t) \/ PublishNext(t) \/ Sleep(t)
    /\ UNCHANGED frameVars

SpecMqttLive ==
    InitMqtt /\ [][NextMqtt]_vars /\ \A t \in 1..MaxThreads : WF_vars(ThreadStep(t))

\* ============================================================ the gateways
\* The startup routines of the three programs built on the engine:
\* main() of all_in_one_gateway (embedded broker, MQTT sink, engine),
\* UnityConnector.start() (engine, HTTP server) and TerminalMonitor.start()
\* (engine only), each run once on a freshly constructed engine; and the
\* shutdown block of main().  Their steps are the calls modelled above, in
\* program order.

\* publish_interval is 0.5 s and the join in MqttPublisher.disconnect waits
\* at most 1.0 s: one tick of the timers is half a second.
PublishInterval == 1
JoinTimeout     == 2

Programs == {"all_in_one", "unity", "terminal"}

\* The calls of a startup routine may fail in every way modelled above.
GatewayEnv == {"connect", "teardown", "subscribe", "gateway"}

\* The sink each program registers: mqtt.update_value, on_value_update,
\* on_value_change.
SinkOf(p) == IF p = "all_in_one" THEN "mqtt" ELSE "other"

\* Where the routine continues when the engine is down again after a failed
\* connect() or after the disconnect() that follows a failed subscribe:
\* main() stops the sink, start() of UnityConnector returns, start() of
\* TerminalMonitor runs its finally block.
AfterEngineDown(p) ==
    CASE p = "all_in_one" -> "fail_mqtt"
      [] p = "unity"      -> "returned"
      [] p = "terminal"   -> "finally_terminal"

\* A routine that returns after a failed subscribe without disconnecting.
OnSubscribeFailure_Return(p) == "returned"

\* All three routines call disconnect() on the engine after a failed
\* subscribe_to_nodes().
OnSubscribeFailure(p) == "fail_engine"

serverVars == <<server>>
timerVars  == <<sleepLeft, joinLeft>>
loopVars   == <<loopReady, loopBatch, loopStopping, loopState, broker>>
mainVars   == <<program, mainPc, failedAt, events>>
baseVars   == <<engineVars, sourceVars, fileVars, clock, env, mqtt_latest, mqttVars,
                histVars>>

InitGateway ==
    /\ InitState
    /\ env = GatewayEnv
    /\ program \in Programs
    /\ mainPc = (CASE program = "all_in_one" -> "connect_mqtt"
                   [] program = "unity"      -> "connect_engine"
                   [] program = "terminal"   -> "register")
    /\ failedAt = "none" /\ events = <<>>
    /\ server = None
    /\ sleepLeft = <<>> /\ joinLeft = 0
    /\ loopReady = <<>> /\ loopBatch = 0 /\ loopStopping = FALSE
    /\ loopState = (IF program = "all_in_one" THEN "running" ELSE "none")
    /\ broker = (IF program = "all_in_one" THEN "started" ELSE "none")

\* ---- main(): mqtt.connect()
GwMqttConnect ==
    /\ mainPc = "connect_mqtt"
    /\ MqttConnect
    /\ sleepLeft' = [t \in 1..Len(threads') |-> 0]
    /\ IF ret'.ok
       THEN mainPc' = "connect_engine" /\ failedAt' = failedAt
       ELSE mainPc' = "finally_engine" /\ failedAt' = "mqtt_connect"
    /\ UNCHANGED <<program, events, serverVars, joinLeft, loopVars, dropped, handler>>

\* ---- opcua.connect()
GwConnect ==
    /\ mainPc = "connect_engine"
    /\ Connect
    /\ IF ret'.ok
       THEN /\ mainPc' = (IF program = "terminal" THEN "subscribe" ELSE "register")
            /\ failedAt' = failedAt
       ELSE /\ mainPc' = AfterEngineDown(program)
            /\ failedAt' = "engine_connect"
    /\ UNCHANGED <<program, events, serverVars, timerVars, loopVars, dropped, handler>>

\* ---- add_value_callback(sink): TerminalMonitor registers in __init__,
\* the other two after a successful connect.
GwRegister ==
    /\ mainPc = "register"
    /\ AddValueCallback
    /\ value_callbacks' = Append(value_callbacks, SinkOf(program))
    /\ mainPc' = (IF program = "terminal" THEN "connect_engine" ELSE "subscribe")
    /\ UNCHANGED <<program, failedAt, events, serverVars, timerVars, loopVars, dropped, handler>>

\* ---- subscribe_to_nodes()
GwSubscribeStart ==
    /\ mainPc = "subscribe"
    /\ SubscribeStart
    /\ IF ret'.op = "subscribe"
       THEN mainPc' = OnSubscribeFailure(program) /\ failedAt' = "subscribe"
       ELSE mainPc' = "subscribing" /\ failedAt' = failedAt
    /\ UNCHANGED <<program, events, serverVars, timerVars, loopVars, dropped, handler>>

GwSubscribeItem ==
    /\ mainPc = "subscribing"
    /\ SubscribeItem
    /\ UNCHANGED <<mainVars, serverVars, timerVars, loopVars, dropped, handler>>

GwSubscribeStore ==
    /\ mainPc = "subscribing"
    /\ SubscribeStore
    /\ UNCHANGED <<mainVars, serverVars, timerVars, loopVars, dropped, handler>>

GwSubscribeReturn ==
    /\ mainPc = "subscribing"
    /\ SubscribeReturn
    /\ mainPc' = (IF program = "unity" THEN "serve" ELSE "running")
    /\ UNCHANGED <<program, failedAt, events, serverVars, timerVars, loopVars, dropped, handler>>

\* ---- opcua.disconnect() after a failed subscribe
GwFailEngine ==
    /\ mainPc = "fail_engine"
    /\ DisconnectCall
    /\ mainPc' = AfterEngineDown(program)
    /\ UNCHANGED <<program, failedAt, events, serverVars, timerVars, loopVars, dropped, handler>>

\* ---- UnityConnector.start(): make_server and the server thread; when
\* make_server raises, the except branch calls stop(), which finds no server
\* and disconnects the engine.
GwServerStart ==
    /\ mainPc = "serve"
    /\ \/ server' = 1 /\ mainPc' = "returned" /\ failedAt' = failedAt
       \/ server' = server /\ mainPc' = "stop" /\ failedAt' = "server"
    /\ UNCHANGED <<baseVars, program, events, timerVars, loopVars, dropped, handler>>

GwStop ==
    /\ mainPc = "stop"
    /\ DisconnectCall
    /\ mainPc' = "returned"
    /\ UNCHANGED <<program, failedAt, events, serverVars, timerVars, loopVars, dropped, handler>>

\* ---- the signal handler clears `running`; the wait loop ends.
Interrupt ==
    /\ mainPc = "running"
    /\ pc = "idle"
    /\ mainPc' = (IF program = "terminal" THEN "finally_terminal" ELSE "finally_engine")
    /\ UNCHANGED <<baseVars, program, failedAt, events, serverVars, timerVars, loopVars,
                   dropped, handler>>

\* ---- TerminalMonitor.start(), finally: disconnect only if still connected.
GwFinallyTerminal ==
    /\ mainPc = "finally_terminal"
    /\ IF connected THEN DisconnectCall ELSE UNCHANGED baseVars
    /\ mainPc' = "returned"
    /\ UNCHANGED <<program, failedAt, events, serverVars, timerVars, loopVars, dropped, handler>>

\* ---- main(), finally: opcua.disconnect()
GwFinallyEngine ==
    /\ mainPc = "finally_engine"
    /\ DisconnectCall
    /\ mainPc' = "finally_mqtt"
    /\ events' = Append(events, "engine_disconnected")
    /\ UNCHANGED <<program, failedAt, serverVars, timerVars, loopVars, dropped, handler>>

\* ---- mqtt.disconnect(), in the failure branch of opcua.connect() or of
\* subscribe_to_nodes() and in the finally block.
GwMqttDisconnectBegin ==
    /\ mainPc \in {"fail_mqtt", "finally_mqtt"}
    /\ MqttDisconnectBegin
    /\ joinLeft' = JoinTimeout
    /\ UNCHANGED <<mainVars, serverVars, sleepLeft, loopVars, dropped, handler>>

\* The join is skipped when no thread is held or the thread is not alive,
\* and returns when the thread has exited or the timeout has passed.
JoinReturns ==
    IF publish_thread = None THEN TRUE
    ELSE threads[publish_thread].pc = "exited" \/ joinLeft = 0

GwMqttDisconnectEnd ==
    /\ JoinReturns
    /\ MqttDisconnectEnd
    /\ joinLeft' = 0
    /\ IF mainPc = "fail_mqtt"
       THEN mainPc' = "finally_engine" /\ events' = events
       ELSE mainPc' = "stop_broker" /\ events' = Append(events, "mqtt_stopped")
    /\ UNCHANGED <<program, failedAt, serverVars, sleepLeft, loopVars, dropped, handler>>

\* ---- the publish thread and the MQTT client's callbacks
GwLoopCheck(t) ==
    /\ LoopCheck(t)
    /\ sleepLeft' = [sleepLeft EXCEPT ![t] =
                        IF threads'[t].pc = "sleep" THEN PublishInterval ELSE 0]
    /\ UNCHANGED <<mainVars, serverVars, joinLeft, loopVars, dropped, handler>>

GwPublishNext(t) ==
    /\ PublishNext(t)
    /\ sleepLeft' = [sleepLeft EXCEPT ![t] =
                        IF threads'[t].pc = "sleep" THEN PublishInterval ELSE 0]
    /\ UNCHANGED <<mainVars, serverVars, joinLeft, loopVars, dropped, handler>>

GwSleep(t) ==
    /\ sleepLeft[t] = 0
    /\ Sleep(t)
    /\ UNCHANGED <<mainVars, serverVars, timerVars, loopVars, dropped, handler>>

GwOnConnect ==
    /\ OnConnect
    /\ UNCHANGED <<mainVars, serverVars, timerVars, loopVars, dropped, handler>>

GwOnDisconnect ==
    /\ OnDisconnect
    /\ UNCHANGED <<mainVars, serverVars, timerVars, loopVars, dropped, handler>>

\* Half a second passes.  The steps of a publish cycle take no time, a sleep
\* that is over ends before more time passes, and so does a join that can
\* return.
Tick ==
    /\ \A t \in 1..Len(threads) :
          /\ threads[t].pc \notin {"check", "iter"}
          /\ threads[t].pc = "sleep" => sleepLeft[t] > 0
    /\ pc = "mqtt_join" => ~JoinReturns
    /\ (\E t \in 1..Len(threads) : threads[t].pc = "sleep") \/ pc = "mqtt_join"
    /\ sleepLeft' = [t \in 1..Len(sleepLeft) |->
                        IF sleepLeft[t] > 0 THEN sleepLeft[t] - 1 ELSE 0]
    /\ joinLeft' = (IF pc = "mqtt_join" THEN joinLeft - 1 ELSE joinLeft)
    /\ UNCHANGED <<baseVars, mainVars, serverVars, loopVars, dropped, handler>>

\* ---- notifications from the data source
GwNotification ==
    /\ Notification
    /\ UNCHANGED <<mainVars, serverVars, timerVars, loopVars, dropped, handler>>

\* ---- main(), finally: stopping the broker.
\* loop.call_soon_threadsafe(lambda: asyncio.create_task(shutdown_broker(..)))
ScheduleShutdown ==
    /\ mainPc = "stop_broker"
    /\ loopReady' = Append(loopReady, "create_task")
    /\ mainPc' = "stop_loop"
    /\ UNCHANGED <<baseVars, program, failedAt, events, serverVars, timerVars,
                   loopBatch, loopStopping, loopState, broker, dropped, handler>>

\* loop.call_soon_threadsafe(loop.stop)
ScheduleStop ==
    /\ mainPc = "stop_loop"
    /\ loopReady' = Append(loopReady, "stop")
    /\ mainPc' = "join_broker"
    /\ UNCHANGED <<baseVars, program, failedAt, events, serverVars, timerVars,
                   loopBatch, loopStopping, loopState, broker, dropped, handler>>

\* broker_thread.join(timeout=2): the loop runs the handles queued for it
\* within its next two iterations, so the join returns when run_forever has
\* returned and the thread has ended; then main returns.
JoinBroker ==
    /\ mainPc = "join_broker"
    /\ loopState = "stopped"
    /\ mainPc' = "returned"
    /\ events' = Append(events, "main_returned")
    /\ UNCHANGED <<baseVars, program, failedAt, serverVars, timerVars, loopVars, dropped, handler>>

\* ---- the broker thread: loop.run_forever().
\* One iteration of the event loop runs the handles that are ready when it
\* starts; handles queued while it runs wait for the next iteration.
LoopBegin ==
    /\ loopState = "running" /\ loopBatch = 0 /\ ~loopStopping
    /\ loopReady # <<>>
    /\ loopBatch' = Len(loopReady)
    /\ UNCHANGED <<baseVars, mainVars, serverVars, timerVars, loopReady, loopStopping,
                   loopState, broker, dropped, handler>>

\* The loop runs the next handle of the iteration:
\*   create_task   the lambda; the new task's first step becomes ready;
\*   stop          loop.stop() sets the stopping flag;
\*   shutdown_step shutdown_broker runs up to its next suspension inside
\*                 broker.shutdown(), or to its end.
LoopRun ==
    /\ loopState = "running" /\ loopBatch > 0
    /\ loopBatch' = loopBatch - 1
    /\ LET h == Head(loopReady) IN
       \/ /\ h = "create_task"
          /\ loopReady' = Append(Tail(loopReady), "shutdown_step")
          /\ UNCHANGED <<loopStopping, broker, events>>
       \/ /\ h = "stop"
          /\ loopReady' = Tail(loopReady)
          /\ loopStopping' = TRUE
          /\ UNCHANGED <<broker, events>>
       \/ /\ h = "shutdown_step"
          /\ loopReady' = Tail(loopReady)
          /\ \/ broker = "started" /\ broker' = "closing" /\ events' = events
             \/ broker' = "stopped" /\ events' = Append(events, "broker_stopped")
          /\ UNCHANGED loopStopping
    /\ UNCHANGED <<baseVars, program, mainPc, failedAt, serverVars, timerVars, loopState,
                   dropped, handler>>

\* What broker.shutdown() waits for has happened: the task is ready again.
BrokerWake ==
    /\ loopState = "running" /\ broker = "closing"
    /\ \A k \in 1..Len(loopReady) : loopReady[k] # "shutdown_step"
    /\ loopReady' = Append(loopReady, "shutdown_step")
    /\ UNCHANGED <<baseVars, mainVars, serverVars, timerVars, loopBatch, loopStopping,
                   loopState, broker, dropped, handler>>

\* After an iteration in which stop() ran, run_forever returns: handles
\* still queued are never run.
LoopEnd ==
    /\ loopState = "running" /\ loopBatch = 0 /\ loopStopping
    /\ loopState' = "stopped"
    /\ loopStopping' = FALSE
    /\ events' = Append(events, "loop_stopped")
    /\ UNCHANGED <<baseVars, program, mainPc, failedAt, serverVars, timerVars, loopReady,
                   loopBatch, broker, dropped, handler>>

NextGateway ==
    \/ GwMqttConnect
    \/ GwConnect
    \/ GwRegister
    \/ GwSubscribeStart
    \/ GwSubscribeItem
    \/ GwSubscribeStore
    \/ GwSubscribeReturn
    \/ GwFailEngine
    \/ GwServerStart
    \/ GwStop
    \/ Interrupt
    \/ GwFinallyTerminal
    \/ GwFinallyEngine
    \/ GwMqttDisconnectBegin
    \/ GwMqttDisconnectEnd
    \/ \E t \in 1..Len(threads) : GwLoopCheck(t)
    \/ \E t \in 1..Len(threads) : GwPublishNext(t)
    \/ \E t \in 1..Len(threads) : GwSleep(t)
    \/ GwOnConnect
    \/ GwOnDisconnect
    \/ Tick
    \/ GwNotification
    \/ ScheduleShutdown
    \/ ScheduleStop
    \/ JoinBroker
    \/ LoopBegin
    \/ LoopRun
    \/ BrokerWake
    \/ LoopEnd

SpecGateway == InitGateway /\ [][NextGateway]_vars

\* ===================================================== statement by statement
\* Spec takes the store of an accepted value and the fan-out that follows it
\* as one step.  They are two statements, run on two threads: the caller of
\* subscribe_to_nodes stores and notifies an initial read (lines 241-248),
\* the client library's thread stores and notifies a notification (lines
\* 288-299), and nothing keeps a statement of one thread from running between
\* the two statements of the other.  Here each statement is a step.
HandlerIdle == [pc |-> "idle", point |-> 0, val |-> 0]

\* Values stored whose fan-out has not run yet.
Pending ==
    (IF pc \in {"sub_store", "sub_notify"} THEN 1 ELSE 0)
    + (IF handler.pc = "notify" THEN 1 ELSE 0)

\* What a sink finds in the engine's cache under the name of point i.
CacheEntry(i) ==
    IF nodes_to_monitor[i].name \in DOMAIN latest_values
    THEN latest_values[nodes_to_monitor[i].name] ELSE NoRecord

\* subscribe_to_nodes, lines 241-245: the value read is stored.
StoreRead ==
    /\ pc = "sub_store"
    /\ latest_values' = Put(latest_values, nodes_to_monitor[subIdx].name,
                            InitialRecord(subIdx, readVal, clock))
    /\ hist' = [hist EXCEPT ![subIdx] = [kind |-> "read", value |-> readVal, ts |-> clock,
                                       id |-> nodes_to_monitor[subIdx].id]]
    /\ clock' = clock + 1
    /\ subCall' = [subCall EXCEPT !.seeded = @ \cup {subIdx}, !.readAt = 0]
    /\ pc' = "sub_notify"
    /\ UNCHANGED <<client, connected, subscription, handles, value_callbacks, subIdx,
                   readVal, sourceVars, fileVars, env, mqtt_latest, mqttVars, ret,
                   accepted, regAt, calls, lastFan, handler>>

\* subscribe_to_nodes, line 248: _notify_callbacks(name, value, unit).
NotifyRead ==
    /\ pc = "sub_notify"
    /\ \E raises \in SUBSET MayRaise :
         Fanout(subIdx, readVal, raises, clock, CacheEntry(subIdx))
    /\ pc' = "sub_item" /\ subIdx' = subIdx + 1 /\ readVal' = 0
    /\ UNCHANGED <<client, connected, subscription, handles, latest_values,
                   value_callbacks, sourceVars, fileVars, clock, env, mqttVars, ret,
                   hist, regAt, subCall, handler>>

\* datachange_notification, lines 278-292: lookup and store.  The library
\* calls the handler for one notification at a time.
HandlerStore ==
    \E node_id \in NodeIds, val \in ValueChoices :
        LET i == FindNodeInfo(node_id) IN
        /\ handler.pc = "idle"
        /\ Deliverable(node_id)
        /\ i # None
        /\ accepted + Pending < MaxEvents
        /\ latest_values' = Put(latest_values, nodes_to_monitor[i].name,
                                NotificationRecord(i, val, clock))
        /\ hist' = [hist EXCEPT ![i] = [kind |-> "notif", value |-> val, ts |-> clock,
                                       id |-> node_id]]
        /\ clock' = clock + 1
        /\ handler' = [pc |-> "notify", point |-> i, val |-> val]
        /\ UNCHANGED <<client, connected, subscription, handles, value_callbacks,
                       pc, subIdx, readVal, sourceVars, fileVars, env, mqtt_latest,
                       mqttVars, ret, accepted, regAt, calls, lastFan, subCall>>

\* datachange_notification, line 299: _notify_callbacks(name, val, unit).
HandlerNotify ==
    /\ handler.pc = "notify"
    /\ \E raises \in SUBSET MayRaise :
         Fanout(handler.point, handler.val, raises, clock, CacheEntry(handler.point))
    /\ handler' = HandlerIdle
    /\ UNCHANGED <<client, connected, subscription, handles, latest_values,
                   value_callbacks, pc, subIdx, readVal, sourceVars, fileVars, clock,
                   env, mqttVars, ret, hist, regAt, subCall>>

stepFrame == <<dropped, program, mainPc, failedAt, events, server, sleepLeft, joinLeft,
               loopReady, loopBatch, loopStopping, loopState, broker>>

\* One sink, values that differ, no failing call.
InitSteps == InitState /\ NoProgram /\ env = {"steps"}

NextSteps ==
    \/ AddValueCallback /\ UNCHANGED frameVars
    \/ Connect /\ UNCHANGED frameVars
    \/ DisconnectCall /\ UNCHANGED frameVars
    \/ SubscribeStart /\ UNCHANGED frameVars
    \/ SubscribeItem /\ (pc' = "sub_store" => accepted + Pending < MaxEvents)
                     /\ UNCHANGED frameVars
    \/ StoreRead /\ UNCHANGED stepFrame
    \/ NotifyRead /\ UNCHANGED stepFrame
    \/ SubscribeReturn /\ UNCHANGED frameVars
    \/ HandlerStore /\ UNCHANGED stepFrame
    \/ HandlerNotify /\ UNCHANGED stepFrame

SpecSteps == InitSteps /\ [][NextSteps]_vars

\* ------------------------------------------------------------------ typing
TypeOK ==
    /\ dropped \in BOOLEAN
    /\ program \in Programs \cup {"none"}
    /\ failedAt \in {"none", "mqtt_connect", "engine_connect", "subscribe", "server"}
    /\ server \in {None, 1}
    /\ Len(sleepLeft) \in {0, Len(threads)}
    /\ \A t \in 1..Len(sleepLeft) : sleepLeft[t] \in 0..PublishInterval
    /\ joinLeft \in 0..JoinTimeout
    /\ loopBatch \in 0..Len(loopReady) /\ loopStopping \in BOOLEAN
    /\ loopState \in {"none", "running", "stopped"}
    /\ broker \in {"none", "started", "closing", "stopped"}
    /\ client \in 0..MaxClients /\ connected \in BOOLEAN
    /\ subscription \in 0..MaxSubs
    /\ Range(handles) \subseteq Points
    /\ pc \in {"idle", "sub_item", "sub_store", "sub_notify", "mqtt_join"}
    /\ handler.pc \in {"idle", "notify"} /\ handler.point \in 0..NumNodes
    /\ subIdx \in 0..(NumNodes + 1) /\ readVal \in 0..MaxValue
    /\ DOMAIN latest_values \subseteq Names
    /\ Range(value_callbacks) \subseteq Sinks /\ Len(value_callbacks) <= MaxCallbacks
    /\ nClients \in 0..MaxClients /\ open \subseteq 1..MaxClients
    /\ Len(subs) <= MaxSubs
    /\ keyFile \in 0..MaxGen /\ certFile \in 0..MaxGen /\ nGen \in 0..MaxGen
    /\ clock \in 0..MaxEvents /\ accepted \in 0..MaxEvents
    /\ Range(mqtt_latest.keys) \subseteq Names
    /\ DOMAIN mqtt_latest.vals = Range(mqtt_latest.keys)
    /\ mqtt_connected \in BOOLEAN /\ mqtt_loop \in BOOLEAN /\ keep_running \in BOOLEAN
    /\ publish_thread \in 0..MaxThreads /\ Len(threads) <= MaxThreads
    /\ Len(regAt) = Len(value_callbacks) /\ Len(calls) = Len(value_callbacks)

\* =================================================================== claims
NameOf(i) == nodes_to_monitor[i].name

\* The handle list subscribe_to_nodes is expected to leave when creation
\* failed for the points in failed: one handle per other point, in
\* configuration order.
HandlesWithout(failed) ==
    SelectSeq([k \in 1..NumNodes |-> k], LAMBDA k : k \notin failed)

\* ----------------------------------------------------------------------- C1
\* C1: whenever the last value accepted for a configured point came from a
\* notification, the cache entry under the point's name holds that
\* notification's value, the point's configured unit and that notification's
\* receipt time as ISO text: never data of an earlier notification.
C1_LastNotificationWins ==
    \A i \in Points :
        hist[i].kind = "notif" =>
            /\ NameOf(i) \in DOMAIN latest_values
            /\ latest_values[NameOf(i)] =
                   [value |-> hist[i].value, unit |-> nodes_to_monitor[i].unit,
                    timestamp |-> IsoFormat(hist[i].ts)]

\* Two notifications for point A and one for B, no initial read stored: the
\* second notification for A, with a value of its own, came last.
C1_Witness ==
    /\ subCall.seeded = {} /\ accepted = 3
    /\ hist[1].kind = "notif" /\ hist[1].ts = 2 /\ hist[1].value = 2
    /\ hist[2].kind = "notif" /\ hist[2].ts = 1 /\ hist[2].value = 1
    /\ DOMAIN latest_values = {"A", "B"}
    /\ latest_values["A"].value = 2

\* ----------------------------------------------------------------------- C2
\* C2: in every fan-out, whichever registrations raise, no exception leaves
\* _notify_callbacks, every registration is invoked, the cache entry of the
\* event is the record the handler wrote, and a registered update_value
\* sink has recorded the event.
C2_SinkIsolation ==
    /\ ~lastFan.escaped
    /\ lastFan.invoked = [k \in 1..lastFan.regs |-> k]
    /\ lastFan.point # 0 =>
         LET i == lastFan.point
             r == [value |-> hist[i].value, unit |-> nodes_to_monitor[i].unit,
                   timestamp |-> IsoFormat(hist[i].ts)]
         IN  /\ NameOf(i) \in DOMAIN latest_values
             /\ latest_values[NameOf(i)] = r
             /\ (\E k \in 1..lastFan.regs : value_callbacks[k] = "mqtt") =>
                    /\ NameOf(i) \in DOMAIN mqtt_latest.vals
                    /\ mqtt_latest.vals[NameOf(i)] = r

\* The first registration raised on both events so far, update_value is
\* registered after it and has recorded the last event.
C2_Witness ==
    /\ value_callbacks = <<"other", "mqtt">>
    /\ regAt = <<0, 0>> /\ accepted = 2
    /\ lastFan.raises = {1} /\ lastFan.invoked = <<1, 2>>
    /\ mqtt_latest.keys # <<>>
    /\ calls = <<2, 2>>

C4_DisconnectSafe ==
    [][DisconnectCall =>
         /\ ~ret'.raised
         /\ client' = None /\ ~connected'
         /\ (client = None /\ ~connected) =>
                UNCHANGED <<client, connected, subscription, handles,
                            latest_values, value_callbacks, open, subs>>]_vars

\* ----------------------------------------------------------------------- C5
\* C5: when a cycle of the publish loop that entered _publish_values ends,
\* the thread has published every key that was in the sink's map when the
\* cycle started, whatever update_value did meanwhile.
C5_CyclePublishesAll ==
    \A t \in 1..Len(threads) :
        (threads[t].pc = "sleep" /\ threads[t].cycle \in {"complete", "aborted"})
        => {mqtt_latest.keys[k] : k \in 1..threads[t].used} \subseteq Attempted(t)

\* ----------------------------------------------------------------------- C6
\* C6: a generate_certificates call that finds both files returns the two
\* paths a creating call returns, and no step changes the content of either
\* file once both exist.
C6_ProvisioningIdempotent ==
    /\ [](ret.op = "generate_certificates" /\ ret.existed =>
              ret.ok /\ ret.paths = <<CertPath, KeyPath>>)
    /\ [][(keyFile # None /\ certFile # None) =>
              (keyFile' = keyFile /\ certFile' = certFile)]_vars

\* A second call after a creating call: both files existed, their content is
\* that of the first generation.
C6_Witness ==
    /\ ret.op = "generate_certificates" /\ ret.existed /\ ret.ok
    /\ keyFile = 1 /\ certFile = 1 /\ nGen = 1

\* ----------------------------------------------------------------------- C7
\* C7: every registration has been invoked once for each value accepted
\* since it was registered, a sink registered twice counting twice, and
\* each fan-out invokes the registrations in registration order.
C7_FanoutExactlyOnce ==
    /\ \A k \in 1..Len(value_callbacks) : calls[k] = accepted - regAt[k]
    /\ \A k \in 1..Len(lastFan.invoked) : lastFan.invoked[k] = k
    /\ Len(lastFan.invoked) = lastFan.regs

\* The same sink registered twice before notifications A, B, A: three
\* invocations of each registration.
C7_Witness ==
    /\ Len(value_callbacks) = 2 /\ value_callbacks[1] = value_callbacks[2]
    /\ regAt = <<0, 0>> /\ calls = <<3, 3>> /\ accepted = 3
    /\ subCall.seeded = {}
    /\ hist[1].kind = "notif" /\ hist[1].ts = 2
    /\ hist[2].kind = "notif" /\ hist[2].ts = 1
    /\ DOMAIN latest_values = {"A", "B"}

\* ----------------------------------------------------------------------- C8
\* C8: after disconnect() has returned, the handle list is empty, the
\* subscription reference and the client reference are None and connected
\* is False, whatever teardown step raised.
C8_DisconnectClearsAll ==
    (pc = "idle" /\ ret.op = "disconnect") =>
        /\ handles = <<>> /\ subscription = None
        /\ client = None /\ ~connected

\* ----------------------------------------------------------------------- C9
\* C9: after a connect() that returned failure, whichever step failed,
\* client is None and connected is False.
C9_FailedConnectClean ==
    (ret.op = "connect" /\ ~ret.ok) => (client = None /\ ~connected)

\* A connect() that failed after the second Client object was constructed,
\* on an engine that was connected.
C9_Witness ==
    /\ ret.op = "connect" /\ ~ret.ok
    /\ nClients = 2 /\ client = None /\ 1 \in open

\* ---------------------------------------------------------------------- C10
\* C10: once disconnect() has returned, and until the next lifecycle call,
\* no step changes the cache or invokes a registered sink.
C10_NoNotificationAfterDisconnect ==
    [][(pc = "idle" /\ ret.op = "disconnect") =>
          /\ latest_values' = latest_values
          /\ \A k \in 1..Len(calls) : calls'[k] = calls[k]]_vars

\* ---------------------------------------------------------------------- C11
\* C11: after any sequence of MqttPublisher.connect() and disconnect()
\* calls at most one publish loop thread is running (started and not
\* exited).
C11_AtMostOneLoop ==
    Cardinality({t \in 1..Len(threads) : threads[t].pc # "exited"}) <= 1

\* ---------------------------------------------------------------------- C12
\* C12: a subscribe_to_nodes call made while connected is False or there is
\* no client returns failure and changes nothing: no subscription object is
\* created, the subscription reference, the handle list, the cache and the
\* sink list stay as they are and no sink is invoked.
C12_SubscribeNotConnected ==
    [][(SubscribeStart /\ (~connected \/ client = None)) =>
          /\ ret'.op = "subscribe" /\ ~ret'.ok
          /\ UNCHANGED <<client, connected, subscription, handles, latest_values,
                         value_callbacks, open, subs, calls, accepted,
                         mqtt_latest, pc>>]_vars

\* A failed subscribe_to_nodes on a disconnected engine that has a filled
\* cache and a registered sink.
C12_Witness ==
    /\ ret.op = "subscribe" /\ ~ret.ok
    /\ client = None /\ ~connected
    /\ latest_values # EmptyMap /\ value_callbacks # <<>>

\* ---------------------------------------------------------------------- C13
\* C13: a connect() whose credential provisioning fails (it ends with one of
\* the two files still missing) constructs no Client and opens no session,
\* returns failure, and leaves client None and connected False.
C13_NoConnectAfterProvisioningFailure ==
    [][(Connect /\ (keyFile' = None \/ certFile' = None)) =>
          /\ nClients' = nClients /\ open' \subseteq open
          /\ ret' = Ret("connect", FALSE)
          /\ client' = None /\ ~connected']_vars

\* A failed connect() after which the key file exists and the certificate
\* file does not: the certificate step raised; no Client was ever built.
C13_Witness ==
    /\ ret.op = "connect" /\ ~ret.ok
    /\ keyFile # None /\ certFile = None
    /\ nClients = 0 /\ open = {}

\* ---------------------------------------------------------------------- C15
\* C15: while subscribe_to_nodes is running, the store of an initial read
\* of point P never replaces a cache record that a notification for P wrote
\* after that value was read.
C15_ReadNeverOverwritesNotification ==
    [][SubscribeStore =>
          ~(hist[subIdx].kind = "notif" /\ hist[subIdx].ts >= subCall.readAt)]_vars

\* ---------------------------------------------------------------------- C16
\* C16: every disconnect() makes these library calls, in this order,
\* whichever of them raise: one unsubscribe per handle held (when a
\* subscription is held), then the subscription's delete, then the
\* client's disconnect (when a client is held).
C16_TeardownOrder ==
    (ret.op = "disconnect") =>
        ret.trace =
            (IF ret.before[2]
             THEN [k \in 1..ret.before[1] |-> "unsubscribe"] \o <<"delete">>
             ELSE <<>>)
            \o (IF ret.before[3] THEN <<"close">> ELSE <<>>)

\* ---------------------------------------------------------------------- C17
\* C17: in subscribe_to_nodes every monitored item that is created is
\* followed by an initial read.  When the read value is stored, the cache
\* entry of the point becomes that value with the configured unit and the
\* time of the store, every registration is invoked once (a registered
\* update_value records the same value), and the loop goes on with the next
\* point.  When the read raises, the handle is kept, the cache and the
\* invocation counts are unchanged, and the loop goes on with the next point.
C17_InitialRead ==
    [][/\ SubscribeStore =>
            /\ latest_values' =
                   Put(latest_values, NameOf(subIdx),
                       [value |-> readVal, unit |-> nodes_to_monitor[subIdx].unit,
                        timestamp |-> IsoFormat(clock)])
            /\ \A k \in 1..Len(value_callbacks) : calls'[k] = calls[k] + 1
            /\ lastFan'.point = subIdx /\ ~lastFan'.escaped
            /\ ("mqtt" \in Range(value_callbacks) =>
                    /\ NameOf(subIdx) \in DOMAIN mqtt_latest'.vals
                    /\ mqtt_latest'.vals[NameOf(subIdx)].value = readVal
                    /\ mqtt_latest'.vals[NameOf(subIdx)].unit =
                           nodes_to_monitor[subIdx].unit)
            /\ handles' = handles /\ subIdx \in Range(handles)
            /\ pc' = "sub_item" /\ subIdx' = subIdx + 1
       /\ (SubscribeItem /\ handles' # handles) =>
            /\ handles' = Append(handles, subIdx)
            /\ \/ pc' = "sub_store" /\ subIdx' = subIdx
               \/ /\ subIdx \in subCall'.readFailed
                  /\ latest_values' = latest_values /\ calls' = calls
                  /\ mqtt_latest' = mqtt_latest
                  /\ pc' = "sub_item" /\ subIdx' = subIdx + 1]_vars

\* A subscribe_to_nodes call that created all three items, stored an initial
\* read for some and failed to read others, with a sink registered before
\* it and invoked once per stored read.
C17_Witness ==
    /\ pc = "idle" /\ ret.op = "subscribe" /\ ret.ok
    /\ handles = <<1, 2, 3>>
    /\ subCall.seeded # {} /\ subCall.readFailed # {}
    /\ value_callbacks # <<>> /\ regAt[1] = 0
    /\ calls[1] = Cardinality(subCall.seeded) /\ accepted = calls[1]
    /\ \A i \in subCall.readFailed : NameOf(i) \notin DOMAIN latest_values

\* ---------------------------------------------------------------------- C18
\* C18: a notification whose node id equals no configured point's id is
\* dropped without error.  Every record a notification has written into the
\* history of a point was written for that point's own id, and the step that
\* handles an unmatched id leaves the cache, the sink-local map, the
\* invocation counts of all sinks, the last fan-out, the number of accepted
\* values and the whole engine and data source as they were (the handler
\* returns normally: nothing changes on the client's side).
C18_UnknownIdDropped ==
    /\ [](\A i \in Points : hist[i].kind = "notif" => hist[i].id = nodes_to_monitor[i].id)
    /\ [][NotificationUnknown =>
            UNCHANGED <<engineVars, sourceVars, mqtt_latest, hist, accepted, calls,
                        lastFan>>]_vars

\* An unmatched id was dropped while the cache held a value and a sink was
\* registered.
C18_Witness ==
    /\ dropped
    /\ latest_values # EmptyMap
    /\ value_callbacks # <<>>
    /\ \E i \in Points : hist[i].kind = "notif"

\* ---------------------------------------------------------------------- C19
\* C19: once keep_running has been cleared by MqttPublisher.disconnect()
\* and is not set again, every publish loop eventually exits and stays
\* exited, so it publishes nothing further; and the loop re-checks the flag
\* once per cycle: a thread starts or restarts a publish cycle only from its
\* while test and only when that test read the flag as set, and after the
\* sleep that ends a cycle it is at the while test again.
C19_LoopExitsAfterFlagCleared ==
    /\ (<>[](~keep_running)) =>
          <>[](\A t \in 1..Len(threads) : threads[t].pc = "exited")
    /\ [][\A t \in 1..Len(threads) :
            /\ (threads'[t].pc \in {"iter", "sleep"} /\ threads[t].pc \notin {"iter", "sleep"})
                   => (threads[t].pc = "check" /\ keep_running)
            /\ (threads[t].pc = "sleep" /\ threads'[t].pc # "sleep")
                   => threads'[t].pc = "check"
            /\ threads[t].pc = "exited" => threads'[t] = threads[t]]_vars

\* disconnect() has returned with the flag cleared, the sink holds values
\* to publish, and every publish loop has exited.
C19_Witness ==
    /\ ~keep_running
    /\ ret.op = "mqtt_disconnect"
    /\ Len(threads) >= 1
    /\ \A t \in 1..Len(threads) : threads[t].pc = "exited"
    /\ mqtt_latest.keys # <<>>

\* ---------------------------------------------------------------------- C14
\* C14: when a program's startup routine has returned after its startup
\* failed at the MQTT sink's connect, at the engine's connect or at the
\* subscribe, no live component remains: the engine is Disconnected (not
\* connected, no client) and holds no subscription, no publish loop of the
\* MQTT sink is running (every publish thread started has exited), and no
\* HTTP server is running.
C14_FailedStartupLeavesNothing ==
    (mainPc = "returned" /\ failedAt \in {"mqtt_connect", "engine_connect", "subscribe"})
        => /\ ~connected /\ client = None /\ subscription = None
           /\ \A t \in 1..Len(threads) : threads[t].pc = "exited"
           /\ server = None

\* main() has returned after a failed subscribe: the engine had connected,
\* the sink had started its publish thread.
C14_Witness ==
    /\ program = "all_in_one" /\ mainPc = "returned" /\ failedAt = "subscribe"
    /\ nClients = 1 /\ Len(threads) = 1 /\ threads[1].pc = "exited"
    /\ value_callbacks = <<"mqtt">>

\* ---------------------------------------------------------------------- C20
\* C20: gateway shutdown is ordered: the loop of the embedded broker is
\* stopped only after the broker's shutdown has run to completion, and when
\* main has returned the steps completed are, in this order, the engine's
\* disconnect, the stop of the MQTT sink, the broker's shutdown, the stop of
\* the broker's event loop, main's return.
C20_OrderedShutdown ==
    /\ loopState = "stopped" => broker = "stopped"
    /\ (program = "all_in_one" /\ mainPc = "returned")
          => events = <<"engine_disconnected", "mqtt_stopped", "broker_stopped",
                        "loop_stopped", "main_returned">>

\* ---------------------------------------------------------------------- C21
\* C21: for every accepted value the cache write precedes the fan-out: when
\* the sinks are invoked for a point with a value, the record the cache
\* holds under the point's name holds that value (and not the previous
\* record, or none).
C21_CacheWriteBeforeFanout ==
    (lastFan.point # 0 /\ lastFan.invoked # <<>>) =>
        /\ lastFan.seen # NoRecord
        /\ lastFan.seen.value = lastFan.value

\* ---------------------------------------------------------------------- C22
\* C22: subscribe_to_nodes is accepted only in Connected: a call made while
\* the engine already holds a subscription creates no second subscription
\* and leaves the tracked subscription and handle list as they are; and
\* while the engine is connected, every monitored item of a live
\* subscription of its session is tracked in the handle list.
C22_SubscribeOnlyInConnected ==
    /\ [][(SubscribeStart /\ subscription # None) =>
            (subs' = subs /\ subscription' = subscription /\ handles' = handles)]_vars
    /\ [](connected =>
            \A s \in 1..Len(subs) :
                (Live(s) /\ subs[s].session = client) =>
                    subs[s].items \subseteq Range(handles))

\* ---------------------------------------------------------------------- C23
\* C23: in every reachable state a point's name is a key of the engine's
\* cache exactly when a notification for the point was accepted or an
\* initial read of it succeeded at some earlier time; every key is the name
\* of a configured point; and no step (connect, subscribe, disconnect, an
\* unmatched notification, a fan-out with a failing sink) removes a key.
C23_CacheKeysAreReportedPoints ==
    /\ [](/\ \A i \in Points :
                (nodes_to_monitor[i].name \in DOMAIN latest_values)
                    <=> (hist[i].kind # "none")
          /\ DOMAIN latest_values \subseteq Names)
    /\ [][DOMAIN latest_values \subseteq DOMAIN latest_values']_vars

\* After a disconnect the cache still holds a point that reported, while
\* another point never reported and is absent.
C23_Witness ==
    /\ ret.op = "disconnect" /\ ~connected
    /\ hist[1].kind = "none" /\ nodes_to_monitor[1].name \notin DOMAIN latest_values
    /\ hist[2].kind = "notif" /\ nodes_to_monitor[2].name \in DOMAIN latest_values

\* ---------------------------------------------------------------------- C24
\* C24: the engine holds at most one open session, and every session it has
\* opened is the one referenced by client or has been closed.  connect()
\* keeps this: called in a state where it holds, also while already
\* connected, it leaves no open session other than the one client references.
C24_NoOrphanedSession ==
    [][(Connect /\ Cardinality(open) <= 1 /\ open \subseteq {client}) =>
          (Cardinality(open') <= 1 /\ open' \subseteq {client'})]_vars

\* ---------------------------------------------------------------------- C25
\* C25: within one publish cycle a failure to serialize or publish one
\* entry is caught: the step in which it happens takes the thread on to the
\* next entry of the same cycle, a cycle that ends complete has gone through
\* every entry of the sink's map whether or not some of them failed, and
\* the thread leaves the loop only at its while test.
C25_EntryFailureIsolated ==
    /\ [][\A t \in 1..Len(threads) :
            /\ threads'[t].err > threads[t].err =>
                  /\ threads'[t].pc = "iter"
                  /\ threads'[t].pos = threads[t].pos + 1
                  /\ threads'[t].used = threads[t].used
            /\ (threads'[t].pc = "exited" /\ threads[t].pc # "exited") =>
                  (threads[t].pc = "check" /\ ~keep_running)]_vars
    /\ [](\A t \in 1..Len(threads) :
            (threads[t].pc = "sleep" /\ threads[t].cycle = "complete") =>
                /\ threads[t].pos = threads[t].used + 1
                /\ Attempted(t) = {mqtt_latest.keys[k] : k \in 1..threads[t].used})

\* A cycle over at least two entries has ended complete although one entry
\* failed.
C25_Witness ==
    \E t \in 1..Len(threads) :
        /\ threads[t].pc = "sleep" /\ threads[t].cycle = "complete"
        /\ threads[t].used >= 2 /\ threads[t].err = 1
====
